---- MODULE Spec2Model ----
(***************************************************************************)
(* A model of the Tektronix curve-tracer scripts: the TektronixCurveTracer *)
(* wrapper class (main.py, sinusoidal_cycling_caract.py) and the measure_*  *)
(* procedures that drive it.                                                *)
(*                                                                          *)
(* The instrument driver (pymeasure's Tektronix371A) is an opaque           *)
(* dependency: its properties are modelled as plain attributes of the       *)
(* record ct, a write storing the value and a read returning it.            *)
(*                                                                          *)
(* Quantities are fixed-point integers:                                     *)
(*   collector supply        in 0.01 %     (0.1 %  = 10, 1.0 % = 100)       *)
(*   sensitivities           in mV/div and mA/div                           *)
(*   step size, step offset  in mV         (0.3 V = 300, 0.01 V = 10)       *)
(***************************************************************************)
EXTENDS Integers, Sequences, FiniteSets, TLC

VARIABLES
    ct,      \* concrete_tek_ct: the instrument's attributes
    limit,   \* the limit handed to vary_stepgen_offset (limit_stegen_offset)
    call,    \* the last operation called: its name, argument, and whether it raised
    before,  \* ct as it was when that operation was called
    proc,    \* the measure procedure running: measure_3Q, measure_IdVd, measure_IdVgs
    pc,      \* the statement that procedure executes next
    args,    \* its arguments
    n_measures, i_cursor, v_cursor, curve_points,    \* its locals
    curve,   \* the points of the curve as get_curve returned them
    files,   \* the files written so far: <<name suffix, rows>>, in the order written
    log      \* the instrument operations performed so far, in order

mvars == <<proc, pc, args, n_measures, i_cursor, v_cursor, curve_points, curve, files, log>>
vars == <<ct, limit, call, before, mvars>>

----------------------------------------------------------------------------
(* Program constants *)

VALID_PEAK_POWER == <<300, 3000>>
N_HORIZONTAL_DIVS == 10
N_VERTICAL_DIVS == 10
STEPGEN_MIN_OFFSET == 0
\* 0.01, as a number of hundredths
STEPGEN_OFFSET_RESOLUTION == 1
\* 0.1 %, in units of 0.01 %
COLLECTOR_SUPPLY_RESOLUTION == 10

(* The driver's tables of valid selections, per source and peak power.  The *)
(* driver is not part of the repository; the tables here are ascending and  *)
(* hold the values the scripts themselves set.                              *)
HORIZONTAL_DISPLAY_SENSITIVITY_VALID_SELECTIONS_VS_PEAKPOWER_FOR_SOURCE ==
    [COLLECT |-> (300 :> <<50, 100, 200, 500>> @@ 3000 :> <<100, 200, 500, 1000>>),
     STP     |-> (300 :> <<100, 200, 500, 1000>> @@ 3000 :> <<100, 200, 500, 1000>>)]

VERTICAL_DISPLAY_SENSITIVITY_VALID_SELECTIONS_VS_PEAKPOWER_FOR_SOURCE ==
    [COLLECT |-> (300 :> <<500, 1000, 2000>> @@ 3000 :> <<1000, 2000, 5000>>)]

STEP_GENERATOR_VALID_STEP_SELECTIONS_FOR_STEP_SOURCE ==
    [VOLTAGE |-> (300 :> <<200, 500, 1000, 2000, 5000>> @@ 3000 :> <<500, 1000, 2000, 5000>>)]

----------------------------------------------------------------------------
(* Python's list operations, on a sequence *)

Range(list) == {list[k] : k \in 1..Len(list)}

\* list.index(x): the 0-based position of the first x; ValueError when absent
PyHasValue(list, x) == x \in Range(list)
PyIndexOf(list, x) == (CHOOSE k \in 1..Len(list) :
                          /\ list[k] = x
                          /\ \A j \in 1..(k - 1) : list[j] # x) - 1

\* list[i]: a negative i counts from the end; IndexError outside -len..len-1
PyInRange(list, i) == -Len(list) <= i /\ i < Len(list)
PyGetItem(list, i) == IF i >= 0 THEN list[i + 1] ELSE list[Len(list) + i + 1]

\* dict[key][pp]: KeyError when pp is no key
PyHasKey(table, pp) == pp \in DOMAIN table

Abs(x) == IF x < 0 THEN -x ELSE x
Max(x, y) == IF x >= y THEN x ELSE y

\* The outcome of a method: the instrument afterwards, and whether an
\* exception reached the caller.
Returned(c) == [ct |-> c, raised |-> FALSE]
Raised(c)   == [ct |-> c, raised |-> TRUE]

----------------------------------------------------------------------------
(* TektronixCurveTracer: peak power *)

get_peak_power(c) == c.cs_peakpower

set_peak_power_unchecked(c, pp) == Returned([c EXCEPT !.cs_peakpower = pp])

set_peak_power(c, pp) ==
    IF ~PyHasValue(VALID_PEAK_POWER, pp)
    THEN Raised(c)
    ELSE Returned([c EXCEPT !.cs_peakpower = pp])

reset_peak_power(c) == set_peak_power(c, VALID_PEAK_POWER[1])
increase_peak_power(c) == set_peak_power(c, VALID_PEAK_POWER[2])
decrease_peak_power(c) == set_peak_power(c, VALID_PEAK_POWER[1])

----------------------------------------------------------------------------
(* TektronixCurveTracer: horizontal sensitivity and range *)

get_horizontal_sensitivity(c) == c.display_horizontal_source_sensitivity[2]

set_horizontal_sensitivity(c, sensitivity) ==
    [c EXCEPT !.display_horizontal_source_sensitivity =
                  <<c.display_horizontal_source_sensitivity[1], sensitivity>>]

horizontal_table(c) ==
    HORIZONTAL_DISPLAY_SENSITIVITY_VALID_SELECTIONS_VS_PEAKPOWER_FOR_SOURCE[
        c.display_horizontal_source_sensitivity[1]]

has_valid_horizontal_sensitivities(c) == PyHasKey(horizontal_table(c), get_peak_power(c))
get_valid_horizontal_sensitivities(c) == horizontal_table(c)[get_peak_power(c)]

change_horizontal_sensitivity_uncaught(c, increase) ==
    IF ~has_valid_horizontal_sensitivities(c) THEN Raised(c)
    ELSE
    LET horizontal_sensitivity == get_horizontal_sensitivity(c)
        horizontal_sensitivities == get_valid_horizontal_sensitivities(c)
    IN  IF ~PyHasValue(horizontal_sensitivities, horizontal_sensitivity) THEN Raised(c)
        ELSE
        LET index == PyIndexOf(horizontal_sensitivities, horizontal_sensitivity)
            new_index == IF increase THEN index - 1 ELSE index + 1
        IN  IF PyInRange(horizontal_sensitivities, new_index)
            THEN Returned(set_horizontal_sensitivity(
                     c, PyGetItem(horizontal_sensitivities, new_index)))
            ELSE Raised(c)

change_horizontal_sensitivity(c, increase) ==
    IF ~has_valid_horizontal_sensitivities(c) THEN Raised(c)    \* KeyError
    ELSE
    LET horizontal_sensitivity == get_horizontal_sensitivity(c)
        horizontal_sensitivities == get_valid_horizontal_sensitivities(c)
    IN  IF ~PyHasValue(horizontal_sensitivities, horizontal_sensitivity)
        THEN Raised(c)                                          \* ValueError of index()
        ELSE
        LET index == PyIndexOf(horizontal_sensitivities, horizontal_sensitivity)
            new_index == IF increase THEN index - 1 ELSE index + 1
        IN  IF PyInRange(horizontal_sensitivities, new_index)
            THEN Returned(set_horizontal_sensitivity(
                     c, PyGetItem(horizontal_sensitivities, new_index)))
            ELSE Returned(c)                                    \* IndexError, swallowed

increase_horizontal_sensitivity(c) == change_horizontal_sensitivity(c, TRUE)
decrease_horizontal_sensitivity(c) == change_horizontal_sensitivity(c, FALSE)

reset_horizontal_sensitivity(c) ==
    IF ~has_valid_horizontal_sensitivities(c) THEN Raised(c)
    ELSE Returned(set_horizontal_sensitivity(c, get_valid_horizontal_sensitivities(c)[1]))

get_horizontal_range(c) == get_horizontal_sensitivity(c) * N_HORIZONTAL_DIVS
reset_horizontal_range(c) == reset_horizontal_sensitivity(c)
increase_horizontal_range_sharper(c) == increase_horizontal_sensitivity(c)
increase_horizontal_range(c) == decrease_horizontal_sensitivity(c)
decrease_horizontal_range(c) == increase_horizontal_sensitivity(c)

----------------------------------------------------------------------------
(* TektronixCurveTracer: vertical sensitivity and range *)

get_vertical_sensitivity(c) == c.display_vertical_source_sensitivity[2]

set_vertical_sensitivity(c, sensitivity) ==
    [c EXCEPT !.display_vertical_source_sensitivity =
                  <<c.display_vertical_source_sensitivity[1], sensitivity>>]

vertical_table(c) ==
    VERTICAL_DISPLAY_SENSITIVITY_VALID_SELECTIONS_VS_PEAKPOWER_FOR_SOURCE[
        c.display_vertical_source_sensitivity[1]]

has_valid_vertical_sensitivities(c) == PyHasKey(vertical_table(c), get_peak_power(c))
get_valid_vertical_sensitivities(c) == vertical_table(c)[get_peak_power(c)]

change_vertical_sensitivity(c, increase) ==
    IF ~has_valid_vertical_sensitivities(c) THEN Raised(c)      \* KeyError
    ELSE
    LET vertical_sensitivity == get_vertical_sensitivity(c)
        vertical_sensitivities == get_valid_vertical_sensitivities(c)
    IN  IF ~PyHasValue(vertical_sensitivities, vertical_sensitivity)
        THEN Raised(c)                                          \* ValueError of index()
        ELSE
        LET index == PyIndexOf(vertical_sensitivities, vertical_sensitivity)
            new_index == IF increase THEN index - 1 ELSE index + 1
        IN  IF PyInRange(vertical_sensitivities, new_index)
            THEN Returned(set_vertical_sensitivity(
                     c, PyGetItem(vertical_sensitivities, new_index)))
            ELSE Returned(c)                                    \* IndexError, swallowed

increase_vertical_sensitivity(c) == change_vertical_sensitivity(c, TRUE)
decrease_vertical_sensitivity(c) == change_vertical_sensitivity(c, FALSE)

reset_vertical_sensitivity(c) ==
    IF ~has_valid_vertical_sensitivities(c) THEN Raised(c)
    ELSE Returned(set_vertical_sensitivity(c, get_valid_vertical_sensitivities(c)[1]))

get_vertical_range(c) == get_vertical_sensitivity(c) * N_VERTICAL_DIVS
reset_vertical_range(c) == reset_vertical_sensitivity(c)
increase_vertical_range(c) == decrease_vertical_sensitivity(c)
decrease_vertical_range(c) == increase_vertical_sensitivity(c)

----------------------------------------------------------------------------
(* TektronixCurveTracer: collector supply *)

get_collector_suplly(c) == c.cs_collector_supply
set_collector_suplly(c, value) == [c EXCEPT !.cs_collector_supply = value]

change_collector_supply(c, increase, delta) ==
    LET actual_cs == c.cs_collector_supply
        _delta0 == IF delta < COLLECTOR_SUPPLY_RESOLUTION
                   THEN COLLECTOR_SUPPLY_RESOLUTION ELSE Abs(delta)
        _delta == IF ~increase THEN -_delta0 ELSE _delta0
    IN  \* the value written is computed from delta; _delta is never read
        Returned(set_collector_suplly(c, actual_cs + delta))

increase_collector_supply(c, delta) == change_collector_supply(c, TRUE, delta)
decrease_collector_supply(c, delta) == change_collector_supply(c, FALSE, delta)
reset_collector_supply(c) == Returned(set_collector_suplly(c, 0))

----------------------------------------------------------------------------
(* TektronixCurveTracer: step generator step size *)

get_stepgen_source(c) == c.stepgen_step_source_and_size[1]
get_stepgen_step_size(c) == c.stepgen_step_source_and_size[2]

set_stepgen_step_size(c, step_size) ==
    [c EXCEPT !.stepgen_step_source_and_size =
                  <<c.stepgen_step_source_and_size[1], step_size>>]

stepgen_table(c) ==
    STEP_GENERATOR_VALID_STEP_SELECTIONS_FOR_STEP_SOURCE[get_stepgen_source(c)]

has_valid_stepgen_step_sizes(c) == PyHasKey(stepgen_table(c), get_peak_power(c))
get_valid_stepgen_step_sizes(c) == stepgen_table(c)[get_peak_power(c)]

change_stepgen_step_size_unclamped(c, increase) ==
    IF ~has_valid_stepgen_step_sizes(c) THEN Raised(c)
    ELSE
    LET stepgen_size == get_stepgen_step_size(c)
        stepgen_sizes == get_valid_stepgen_step_sizes(c)
    IN  IF ~PyHasValue(stepgen_sizes, stepgen_size) THEN Raised(c)
        ELSE
        LET index0 == PyIndexOf(stepgen_sizes, stepgen_size)
            index == IF increase THEN index0 + 1 ELSE index0 - 1
        IN  IF PyInRange(stepgen_sizes, index)
            THEN Returned(set_stepgen_step_size(c, PyGetItem(stepgen_sizes, index)))
            ELSE Returned(c)

change_stepgen_step_size(c, increase) ==
    IF ~has_valid_stepgen_step_sizes(c) THEN Raised(c)          \* KeyError
    ELSE
    LET stepgen_size == get_stepgen_step_size(c)
        stepgen_sizes == get_valid_stepgen_step_sizes(c)
    IN  IF ~PyHasValue(stepgen_sizes, stepgen_size)
        THEN Raised(c)                                          \* ValueError of index()
        ELSE
        LET index0 == PyIndexOf(stepgen_sizes, stepgen_size)
            index == IF increase
                     THEN (IF ~(index0 = Len(stepgen_sizes) - 1) THEN index0 + 1 ELSE index0)
                     ELSE (IF ~(index0 = 0) THEN index0 - 1 ELSE index0)
        IN  IF PyInRange(stepgen_sizes, index)
            THEN Returned(set_stepgen_step_size(c, PyGetItem(stepgen_sizes, index)))
            ELSE Returned(c)                                    \* IndexError, swallowed

increase_stepgen_step_size(c) == change_stepgen_step_size(c, TRUE)
decrease_stepgen_step_size(c) == change_stepgen_step_size(c, FALSE)

reset_stepgen_step_size(c) ==
    IF ~has_valid_stepgen_step_sizes(c) THEN Raised(c)
    ELSE Returned(set_stepgen_step_size(c, get_valid_stepgen_step_sizes(c)[1]))

----------------------------------------------------------------------------
(* TektronixCurveTracer: step generator offset (sinusoidal_cycling_caract.py) *)

\* n / d rounded to the nearest integer, a tie going to the even neighbour
\* (Python's round); d > 0
RoundHalfEven(n, d) ==
    LET q == n \div d
        r == n % d
    IN  IF 2 * r < d THEN q
        ELSE IF 2 * r > d THEN q + 1
        ELSE IF q % 2 = 0 THEN q ELSE q + 1

\* round(offset, 2): a value in mV rounded to a multiple of 10 mV
Round2(x) == 10 * RoundHalfEven(x, 10)

\* round(-STEPGEN_OFFSET_RESOLUTION * step, ndigits=3): in mV, a whole number
RoundedMinDelta(step) == RoundHalfEven(-(STEPGEN_OFFSET_RESOLUTION * step), 100)

get_stepgen_offset(c) == c.stepgen_offset
set_stepgen_offset(c, offset) == [c EXCEPT !.stepgen_offset = offset]
reset_stepgen_offset(c) == Returned(set_stepgen_offset(c, STEPGEN_MIN_OFFSET))

__change_stepgen_offset_min(c, delta, lim, increase) ==
    LET offset == get_stepgen_offset(c)
        r_offset == Round2(offset)
        abs_limit_value == Abs(lim)
    IN  IF -abs_limit_value >= r_offset \/ r_offset >= abs_limit_value
        THEN Returned(c)
        ELSE
        LET step == get_stepgen_step_size(c)
            min_delta0 == Max(-RoundedMinDelta(step), Abs(delta))
            min_delta == IF ~increase THEN -min_delta0 ELSE min_delta0
        IN  Returned(set_stepgen_offset(c, offset + min_delta))

__change_stepgen_offset(c, delta, lim, increase) ==
    LET offset == get_stepgen_offset(c)
        r_offset == Round2(offset)
        abs_limit_value == Abs(lim)
    IN  IF -abs_limit_value >= r_offset \/ r_offset >= abs_limit_value
        THEN Returned(c)
        ELSE
        LET step == get_stepgen_step_size(c)
            min_delta0 == Max(RoundedMinDelta(step), Abs(delta))
            min_delta == IF ~increase THEN -min_delta0 ELSE min_delta0
        IN  Returned(set_stepgen_offset(c, offset + min_delta))

vary_stepgen_offset(c, delta, lim) ==
    IF delta <= 0
    THEN __change_stepgen_offset(c, delta, lim, FALSE)
    ELSE __change_stepgen_offset(c, delta, lim, TRUE)

----------------------------------------------------------------------------
(* The state after tct = TektronixCurveTracer(ct371A); tct.initialize() *)

initialize ==
    [cs_peakpower |-> 300,
     cs_polarity |-> "POS",
     cs_collector_supply |-> 0,
     stepgen_step_source_and_size |-> <<"VOLTAGE", 5000>>,
     stepgen_number_steps |-> 0,
     stepgen_offset |-> 0,
     diplay_store_mode |-> "STO",
     display_horizontal_source_sensitivity |-> <<"COLLECT", 100>>,
     display_vertical_source_sensitivity |-> <<"COLLECT", 500>>,
     measure_mode |-> "REP"]

(* Inputs of the calls *)
PeakPowerInputs == {0, 300, 1000, 3000}
SupplyDeltas == {-100, 0, 5, 10, 100}
OffsetDeltas == {-300, -6, -2, 0, 2, 6, 300}
Limits == {-30, 20, 40}
\* the collector supply stays within -MaxSupply .. MaxSupply
MaxSupply == 300

\* the argument recorded for a call without one
NoArg == <<>>

InitTct ==
    /\ ct = initialize
    /\ limit \in Limits
    /\ call = [op |-> "initialize", arg |-> NoArg, raised |-> FALSE]
    /\ before = initialize

InitIdle ==
    /\ proc = "none"
    /\ pc = "none"
    /\ args = <<>>
    /\ n_measures = 0
    /\ i_cursor = 0
    /\ v_cursor = 0
    /\ curve_points = <<>>
    /\ curve = <<>>
    /\ files = <<>>
    /\ log = <<>>

Init == InitTct /\ InitIdle

\* One call of a method of tct by the script: res is the method's outcome.
Do(name, arg, res) ==
    /\ ct' = res.ct
    /\ call' = [op |-> name, arg |-> arg, raised |-> res.raised]
    /\ before' = ct
    /\ UNCHANGED <<limit, mvars>>

SetPeakPower == \E pp \in PeakPowerInputs : Do("set_peak_power", pp, set_peak_power(ct, pp))
ResetPeakPower == Do("reset_peak_power", NoArg, reset_peak_power(ct))
IncreasePeakPower == Do("increase_peak_power", NoArg, increase_peak_power(ct))
DecreasePeakPower == Do("decrease_peak_power", NoArg, decrease_peak_power(ct))

IncreaseHorizontalSensitivity ==
    Do("increase_horizontal_sensitivity", NoArg, increase_horizontal_sensitivity(ct))
DecreaseHorizontalSensitivity ==
    Do("decrease_horizontal_sensitivity", NoArg, decrease_horizontal_sensitivity(ct))
ResetHorizontalSensitivity ==
    Do("reset_horizontal_sensitivity", NoArg, reset_horizontal_sensitivity(ct))
IncreaseHorizontalRange == Do("increase_horizontal_range", NoArg, increase_horizontal_range(ct))
DecreaseHorizontalRange == Do("decrease_horizontal_range", NoArg, decrease_horizontal_range(ct))
ResetHorizontalRange == Do("reset_horizontal_range", NoArg, reset_horizontal_range(ct))

IncreaseVerticalSensitivity ==
    Do("increase_vertical_sensitivity", NoArg, increase_vertical_sensitivity(ct))
DecreaseVerticalSensitivity ==
    Do("decrease_vertical_sensitivity", NoArg, decrease_vertical_sensitivity(ct))
ResetVerticalSensitivity ==
    Do("reset_vertical_sensitivity", NoArg, reset_vertical_sensitivity(ct))
IncreaseVerticalRange == Do("increase_vertical_range", NoArg, increase_vertical_range(ct))
DecreaseVerticalRange == Do("decrease_vertical_range", NoArg, decrease_vertical_range(ct))
ResetVerticalRange == Do("reset_vertical_range", NoArg, reset_vertical_range(ct))

SupplyInBounds(res) ==
    /\ -MaxSupply <= get_collector_suplly(res.ct)
    /\ get_collector_suplly(res.ct) <= MaxSupply

IncreaseCollectorSupply ==
    \E delta \in SupplyDeltas :
        /\ SupplyInBounds(increase_collector_supply(ct, delta))
        /\ Do("increase_collector_supply", delta, increase_collector_supply(ct, delta))
DecreaseCollectorSupply ==
    \E delta \in SupplyDeltas :
        /\ SupplyInBounds(decrease_collector_supply(ct, delta))
        /\ Do("decrease_collector_supply", delta, decrease_collector_supply(ct, delta))
ResetCollectorSupply == Do("reset_collector_supply", NoArg, reset_collector_supply(ct))

IncreaseStepgenStepSize ==
    Do("increase_stepgen_step_size", NoArg, increase_stepgen_step_size(ct))
DecreaseStepgenStepSize ==
    Do("decrease_stepgen_step_size", NoArg, decrease_stepgen_step_size(ct))
ResetStepgenStepSize == Do("reset_stepgen_step_size", NoArg, reset_stepgen_step_size(ct))
VaryStepgenOffset ==
    \E delta \in OffsetDeltas :
        Do("vary_stepgen_offset", delta, vary_stepgen_offset(ct, delta, limit))
ResetStepgenOffset == Do("reset_stepgen_offset", NoArg, reset_stepgen_offset(ct))

NextPeakPower ==
    \/ SetPeakPower
    \/ ResetPeakPower
    \/ IncreasePeakPower
    \/ DecreasePeakPower

NextDisplay ==
    \/ NextPeakPower
    \/ IncreaseHorizontalSensitivity
    \/ DecreaseHorizontalSensitivity
    \/ ResetHorizontalSensitivity
    \/ IncreaseHorizontalRange
    \/ DecreaseHorizontalRange
    \/ ResetHorizontalRange
    \/ IncreaseVerticalSensitivity
    \/ DecreaseVerticalSensitivity
    \/ ResetVerticalSensitivity
    \/ IncreaseVerticalRange
    \/ DecreaseVerticalRange
    \/ ResetVerticalRange

NextSupply ==
    \/ IncreaseCollectorSupply
    \/ DecreaseCollectorSupply
    \/ ResetCollectorSupply

NextStepGen ==
    \/ NextPeakPower
    \/ IncreaseStepgenStepSize
    \/ DecreaseStepgenStepSize
    \/ ResetStepgenStepSize
    \/ VaryStepgenOffset
    \/ ResetStepgenOffset

\* The display methods and the peak power, called in any order
SpecDisplay == Init /\ [][NextDisplay]_vars
\* The collector supply methods, called in any order
SpecSupply == Init /\ [][NextSupply]_vars
\* The step generator methods and the peak power, called in any order
SpecStepGen == Init /\ [][NextStepGen]_vars

----------------------------------------------------------------------------
(* sinusoidal_cycling_caract.py: the initialisation per kind of measurement *)

initialize_per_3Q_measure(c, peakpower, step_gen_offset, vertical_sens, horizontal_sens) ==
    [c EXCEPT !.cs_peakpower = peakpower,
              !.cs_polarity = "NEG",
              !.cs_collector_supply = 0,
              !.stepgen_step_source_and_size = <<"VOLTAGE", 5000>>,
              !.stepgen_number_steps = 0,
              !.stepgen_offset = step_gen_offset,
              !.diplay_store_mode = "STO",
              !.display_horizontal_source_sensitivity = <<"COLLECT", horizontal_sens>>,
              !.display_vertical_source_sensitivity = <<"COLLECT", vertical_sens>>,
              !.measure_mode = "REP"]

initialize_per_output_characteristics_measure(c, peakpower, step_gen_offset, vertical_sens, horizontal_sens) ==
    [c EXCEPT !.cs_peakpower = peakpower,
              !.cs_polarity = "POS",
              !.cs_collector_supply = 0,
              !.stepgen_step_source_and_size = <<"VOLTAGE", 5000>>,
              !.stepgen_number_steps = 0,
              !.stepgen_offset = step_gen_offset,
              !.diplay_store_mode = "STO",
              !.display_horizontal_source_sensitivity = <<"COLLECT", horizontal_sens>>,
              !.display_vertical_source_sensitivity = <<"COLLECT", vertical_sens>>,
              !.measure_mode = "REP"]

initialize_per_transfer_characteristics_measure(c, peakpower, collector_supply, step_gen_offset, vertical_sens, horizontal_sens) ==
    [c EXCEPT !.stepgen_step_source_and_size = <<"VOLTAGE", 5000>>,
              !.stepgen_number_steps = 0,
              !.stepgen_offset = step_gen_offset,
              !.cs_peakpower = peakpower,
              !.cs_polarity = "POS",
              !.cs_collector_supply = collector_supply,
              !.diplay_store_mode = "STO",
              !.display_horizontal_source_sensitivity = <<"STP", horizontal_sens>>,
              !.display_vertical_source_sensitivity = <<"COLLECT", vertical_sens>>,
              !.measure_mode = "REP"]

start_sweep(c) == [c EXCEPT !.measure_mode = "SWEep"]

----------------------------------------------------------------------------
(* measure_3Q, measure_IdVd, measure_IdVgs *)

Procedures == {"measure_3Q", "measure_IdVd", "measure_IdVgs"}

\* at most MaxRepeat repetitions are asked for
MaxRepeat == 2
\* the ramp loop of one repetition is followed for at most MaxRamp iterations
MaxRamp == 3

\* what the cursor readouts can show, in A and V
CurrentReadouts == {-20, 0, 20}
VoltageReadouts == {-5, 0, 5}
\* what get_curve can return as curve.points
Curves == {<<>>, <<<<0, 0>>, <<1, 2>>>>, <<<<1, 1>>, <<2, 3>>, <<3, 3>>>>}
\* limit_stegen_offset
MeasureLimits == {40, 600}

Arguments(p) ==
    [peakpower : {3000},
     collector_suplly : {6660},
     step_gen_offset : {0},
     vertical_sens : {2000},
     horizontal_sens : {500},
     lim_i : IF p = "measure_3Q" THEN {-20, 0} ELSE {20, 0},     \* min_i, max_i
     lim_v : IF p = "measure_3Q" THEN {-5} ELSE {5},             \* min_v, max_v
     repeat : (-1)..MaxRepeat]

InitMeasure ==
    /\ ct = initialize
    /\ limit \in MeasureLimits
    /\ call = [op |-> "initialize", arg |-> NoArg, raised |-> FALSE]
    /\ before = initialize
    /\ proc \in Procedures
    /\ args \in Arguments(proc)
    /\ pc = "while"
    /\ n_measures = 0
    /\ i_cursor = 0
    /\ v_cursor = 0
    /\ curve_points = <<>>
    /\ curve = <<>>
    /\ files = <<>>
    /\ log = <<>>

Reverse_omitted(list) == list

RECURSIVE Reverse(_)
Reverse(list) ==
    IF list = <<>> THEN <<>> ELSE Append(Reverse(Tail(list)), Head(list))

\* the initialisation each procedure calls
InitializeName ==
    CASE proc = "measure_3Q" -> "initialize_per_3Q_measure"
      [] proc = "measure_IdVd" -> "initialize_per_output_characteristics_measure"
      [] proc = "measure_IdVgs" -> "initialize_per_transfer_characteristics_measure"

InitializeOf(c) ==
    CASE proc = "measure_3Q" ->
            initialize_per_3Q_measure(c, args.peakpower, args.step_gen_offset,
                                      args.vertical_sens, args.horizontal_sens)
      [] proc = "measure_IdVd" ->
            initialize_per_output_characteristics_measure(
                c, args.peakpower, args.step_gen_offset,
                args.vertical_sens, args.horizontal_sens)
      [] proc = "measure_IdVgs" ->
            initialize_per_transfer_characteristics_measure(
                c, args.peakpower, args.collector_suplly, args.step_gen_offset,
                args.vertical_sens, args.horizontal_sens)

RampCondition_until_offset_limit ==
    /\ IF proc = "measure_3Q"
       THEN i_cursor > args.lim_i /\ v_cursor > args.lim_v
       ELSE i_cursor < args.lim_i /\ v_cursor < args.lim_v
    /\ ~(proc = "measure_IdVgs" /\ Round2(get_stepgen_offset(ct)) >= Abs(limit))

\* the condition of the ramp loop
RampCondition ==
    IF proc = "measure_3Q"
    THEN i_cursor > args.lim_i /\ v_cursor > args.lim_v
    ELSE i_cursor < args.lim_i /\ v_cursor < args.lim_v

\* the operation one iteration of the ramp loop calls
RampName ==
    IF proc = "measure_IdVgs" THEN "vary_stepgen_offset" ELSE "increase_collector_supply"
RampOf(c) ==
    IF proc = "measure_IdVgs"
    THEN vary_stepgen_offset(c, 300, limit).ct
    ELSE increase_collector_supply(c, 100).ct

\* the iterations of the ramp loop so far in this repetition
RECURSIVE RampsAtEnd(_)
RampsAtEnd(l) ==
    IF l = <<>> \/ l[Len(l)] # RampName THEN 0
    ELSE 1 + RampsAtEnd(SubSeq(l, 1, Len(l) - 1))

\* str(curve_point[0]) + '\t' + str(curve_point[1]) + '\n'
RowText(curve_point) == <<ToString(curve_point[1]), "\t", ToString(curve_point[2]), "\n">>
FileName_from_zero(n) == <<"results_file_name", "_", ToString(n)>>

\* results_file_name + '_' + str(n_measures + 1)
FileName(n) == <<"results_file_name", "_", ToString(n + 1)>>

Frame == UNCHANGED <<limit, call, before, proc, args>>

\* while n_measures < repeat: tct.initialize_per_..._measure(...)
InitializeMeasure ==
    /\ pc = "while"
    /\ n_measures < args.repeat
    /\ ct' = InitializeOf(ct)
    /\ log' = Append(log, InitializeName)
    /\ pc' = "activate_srq"
    /\ Frame
    /\ UNCHANGED <<n_measures, i_cursor, v_cursor, curve_points, curve, files>>

\* the procedure returns
Return ==
    /\ pc = "while"
    /\ ~(n_measures < args.repeat)
    /\ pc' = "done"
    /\ Frame
    /\ UNCHANGED <<ct, n_measures, i_cursor, v_cursor, curve_points, curve, files, log>>

\* tct.activate_srq(); i_cursor = 0; v_cursor = 0
ActivateSrq ==
    /\ pc = "activate_srq"
    /\ log' = Append(log, "activate_srq")
    /\ i_cursor' = 0
    /\ v_cursor' = 0
    /\ pc' = "ramp"
    /\ Frame
    /\ UNCHANGED <<ct, n_measures, curve_points, curve, files>>

\* one iteration of the ramp loop: step, then read the cursor
Ramp ==
    /\ pc = "ramp"
    /\ RampCondition
    /\ RampsAtEnd(log) < MaxRamp
    /\ ct' = RampOf(ct)
    /\ log' = Append(log, RampName)
    /\ i_cursor' \in CurrentReadouts
    /\ v_cursor' \in VoltageReadouts
    /\ Frame
    /\ UNCHANGED <<pc, n_measures, curve_points, curve, files>>

StartSweep_then_get_curve ==
    /\ pc = "ramp"
    /\ ~RampCondition
    /\ ct' = start_sweep(ct)
    /\ log' = Append(log, "start_sweep")
    /\ pc' = "get_curve"
    /\ Frame
    /\ UNCHANGED <<n_measures, i_cursor, v_cursor, curve_points, curve, files>>

\* the ramp loop is left: tct.start_sweep()
StartSweep ==
    /\ pc = "ramp"
    /\ ~RampCondition
    /\ ct' = start_sweep(ct)
    /\ log' = Append(log, "start_sweep")
    /\ pc' = "wait_for_srq"
    /\ Frame
    /\ UNCHANGED <<n_measures, i_cursor, v_cursor, curve_points, curve, files>>

\* tct.wait_for_srq() returns
WaitForSrq ==
    /\ pc = "wait_for_srq"
    /\ log' = Append(log, "wait_for_srq")
    /\ pc' = "get_curve"
    /\ Frame
    /\ UNCHANGED <<ct, n_measures, i_cursor, v_cursor, curve_points, curve, files>>

\* curve = tct.get_curve(); curve_points = curve.points; curve_points.reverse()
GetCurve ==
    /\ pc = "get_curve"
    /\ \E points \in Curves :
        /\ curve' = points
        /\ curve_points' = Reverse(points)
    /\ log' = Append(log, "get_curve")
    /\ pc' = "write"
    /\ Frame
    /\ UNCHANGED <<ct, n_measures, i_cursor, v_cursor, files>>

\* with open(...) as file: one row per point of curve_points
WriteFile ==
    /\ pc = "write"
    /\ files' = Append(files, [name |-> FileName(n_measures),
                               rows |-> [k \in 1..Len(curve_points) |->
                                            RowText(curve_points[k])]])
    /\ log' = Append(log, "write_file")
    /\ pc' = "discard"
    /\ Frame
    /\ UNCHANGED <<ct, n_measures, i_cursor, v_cursor, curve_points, curve>>

\* tct.concrete_tek_ct.discard_and_disable_all_events(); n_measures = n_measures + 1
DiscardEvents ==
    /\ pc = "discard"
    /\ log' = Append(log, "discard_and_disable_all_events")
    /\ n_measures' = n_measures + 1
    /\ pc' = "while"
    /\ Frame
    /\ UNCHANGED <<ct, i_cursor, v_cursor, curve_points, curve, files>>

NextMeasure ==
    \/ InitializeMeasure
    \/ Return
    \/ ActivateSrq
    \/ Ramp
    \/ StartSweep
    \/ WaitForSrq
    \/ GetCurve
    \/ WriteFile
    \/ DiscardEvents

\* One call of a measure procedure
SpecMeasure == InitMeasure /\ [][NextMeasure]_vars

----------------------------------------------------------------------------
(* main.py: main() *)

\* 5.0 A and 5.0 V, in mA and mV
i_max == 5000
v_max == 5000

\* what the cursor readouts can show, in mA and mV
MainCurrentReadouts == {0, 2500, 5000, 6000}
MainVoltageReadouts == {0, 500, 1500, 2500, 4000, 5000}

\* the instrument when the ramp loop is reached: initialize(), then a step size
\* of 5 V, an offset of 10 V and a collector supply of 0
MainSetup ==
    set_collector_suplly(
        set_stepgen_offset(set_stepgen_step_size(initialize, 5000), 10000), 0)

InitMain ==
    /\ ct = MainSetup
    /\ limit \in Limits
    /\ call = [op |-> "initialize", arg |-> NoArg, raised |-> FALSE]
    /\ before = MainSetup
    /\ proc = "main"
    /\ pc = "main_while"
    /\ args = <<>>
    /\ n_measures = 0
    /\ i_cursor \in MainCurrentReadouts
    /\ v_cursor \in MainVoltageReadouts
    /\ curve_points = <<>>
    /\ curve = <<>>
    /\ files = <<>>
    /\ log = <<>>

\* if tct.get_vertical_range() < i_cursor < i_max: tct.increase_vertical_range()
AdjustVertical(c, i) ==
    IF get_vertical_range(c) < i /\ i < i_max
    THEN increase_vertical_range(c)
    ELSE Returned(c)

\* if tct.get_horizontal_range() < v_cursor < v_max: tct.increase_horizontal_range()
AdjustHorizontal(c, v) ==
    IF get_horizontal_range(c) < v /\ v < v_max
    THEN increase_horizontal_range(c)
    ELSE Returned(c)

\* one iteration of the ramp loop
MainIteration ==
    /\ pc = "main_while"
    /\ i_cursor < i_max /\ v_cursor < v_max
    /\ get_collector_suplly(ct) < MaxSupply
    /\ \E i \in MainCurrentReadouts, v \in MainVoltageReadouts :
        LET stepped == increase_collector_supply(ct, 100).ct
            vertical == AdjustVertical(stepped, i)
            horizontal == IF vertical.raised THEN vertical
                          ELSE AdjustHorizontal(vertical.ct, v)
        IN  /\ i_cursor' = i
            /\ v_cursor' = v
            /\ ct' = horizontal.ct
            /\ call' = [op |-> "main_iteration", arg |-> NoArg,
                        raised |-> horizontal.raised]
            /\ pc' = IF horizontal.raised THEN "main_raised" ELSE "main_while"
    /\ before' = ct
    /\ UNCHANGED <<limit, proc, args, n_measures, curve_points, curve, files, log>>

\* the ramp loop is left: tct.start_sweep(), then while True: pass
MainStartSweep ==
    /\ pc = "main_while"
    /\ ~(i_cursor < i_max /\ v_cursor < v_max)
    /\ ct' = start_sweep(ct)
    /\ call' = [op |-> "start_sweep", arg |-> NoArg, raised |-> FALSE]
    /\ before' = ct
    /\ pc' = "main_pass"
    /\ UNCHANGED <<limit, proc, args, n_measures, i_cursor, v_cursor,
                   curve_points, curve, files, log>>

NextMain ==
    \/ MainIteration
    \/ MainStartSweep

\* main() of main.py
SpecMain == InitMain /\ [][NextMain]_vars

----------------------------------------------------------------------------
(* What the claims speak of *)

First(list) == list[1]
Last(list) == list[Len(list)]
\* the position (from 1) of x in a table without repeated entries
PositionOf(list, x) == CHOOSE k \in 1..Len(list) : list[k] = x

HorizontalValid(c) ==
    /\ has_valid_horizontal_sensitivities(c)
    /\ get_horizontal_sensitivity(c) \in Range(get_valid_horizontal_sensitivities(c))
VerticalValid(c) ==
    /\ has_valid_vertical_sensitivities(c)
    /\ get_vertical_sensitivity(c) \in Range(get_valid_vertical_sensitivities(c))
StepSizeValid(c) ==
    /\ has_valid_stepgen_step_sizes(c)
    /\ get_stepgen_step_size(c) \in Range(get_valid_stepgen_step_sizes(c))

HorizontalSharper == {"increase_horizontal_sensitivity", "decrease_horizontal_range"}
HorizontalCoarser == {"decrease_horizontal_sensitivity", "increase_horizontal_range"}
VerticalSharper == {"increase_vertical_sensitivity", "decrease_vertical_range"}
VerticalCoarser == {"decrease_vertical_sensitivity", "increase_vertical_range"}

----------------------------------------------------------------------------
\* C1: increase_stepgen_step_size at the last entry of the valid table and
\* decrease_stepgen_step_size at the first entry leave the step size unchanged;
\* at any other index they select the next and the previous entry; the step
\* size they leave is an entry of the valid table.
C1_StepSizeClamps ==
    (/\ call.op \in {"increase_stepgen_step_size", "decrease_stepgen_step_size"}
     /\ StepSizeValid(before))
    => LET sizes == get_valid_stepgen_step_sizes(before)
           k == PositionOf(sizes, get_stepgen_step_size(before))
           expected == IF call.op = "increase_stepgen_step_size"
                       THEN (IF k = Len(sizes) THEN sizes[k] ELSE sizes[k + 1])
                       ELSE (IF k = 1 THEN sizes[k] ELSE sizes[k - 1])
       IN  /\ ~call.raised
           /\ ct = set_stepgen_step_size(before, expected)
           /\ StepSizeValid(ct)

C1_Witness ==
    /\ call.op = "decrease_stepgen_step_size"
    /\ StepSizeValid(before)
    /\ get_stepgen_step_size(before) = First(get_valid_stepgen_step_sizes(before))
    /\ get_stepgen_step_size(ct) = get_stepgen_step_size(before)

\* C2: with the sensitivity at the first entry of its valid table,
\* increase_horizontal_sensitivity / decrease_horizontal_range (resp. the
\* vertical ones) leave the sensitivity unchanged.
C2_ClampsAtFirstEntry ==
    /\ (/\ call.op \in HorizontalSharper
        /\ HorizontalValid(before)
        /\ get_horizontal_sensitivity(before) = First(get_valid_horizontal_sensitivities(before)))
       => get_horizontal_sensitivity(ct) = get_horizontal_sensitivity(before)
    /\ (/\ call.op \in VerticalSharper
        /\ VerticalValid(before)
        /\ get_vertical_sensitivity(before) = First(get_valid_vertical_sensitivities(before)))
       => get_vertical_sensitivity(ct) = get_vertical_sensitivity(before)

\* C3: with the sensitivity at the last entry of its valid table,
\* decrease_horizontal_sensitivity / increase_horizontal_range (resp. the
\* vertical ones) leave the sensitivity unchanged and raise nothing.
C3_ClampsAtLastEntry ==
    /\ (/\ call.op \in HorizontalCoarser
        /\ HorizontalValid(before)
        /\ get_horizontal_sensitivity(before) = Last(get_valid_horizontal_sensitivities(before)))
       => (ct = before /\ ~call.raised)
    /\ (/\ call.op \in VerticalCoarser
        /\ VerticalValid(before)
        /\ get_vertical_sensitivity(before) = Last(get_valid_vertical_sensitivities(before)))
       => (ct = before /\ ~call.raised)

C3_Witness ==
    /\ call.op = "increase_horizontal_range"
    /\ HorizontalValid(before)
    /\ get_horizontal_sensitivity(before) = Last(get_valid_horizontal_sensitivities(before))
    /\ get_horizontal_sensitivity(ct) = get_horizontal_sensitivity(before)
    /\ ~call.raised

\* C4: increase_collector_supply(delta) with delta > 0 raises the collector
\* supply and decrease_collector_supply(delta) with delta > 0 lowers it.
C4_SupplyMovesAsAsked ==
    /\ (call.op = "increase_collector_supply" /\ call.arg > 0)
       => get_collector_suplly(ct) > get_collector_suplly(before)
    /\ (call.op = "decrease_collector_supply" /\ call.arg > 0)
       => get_collector_suplly(ct) < get_collector_suplly(before)

\* C5: change_collector_supply changes the collector supply by at least
\* COLLECTOR_SUPPLY_RESOLUTION, whatever delta is requested.
C5_SupplyMinimumIncrement ==
    call.op \in {"increase_collector_supply", "decrease_collector_supply"}
    => Abs(get_collector_suplly(ct) - get_collector_suplly(before))
           >= COLLECTOR_SUPPLY_RESOLUTION

\* C6: a vary_stepgen_offset call that finds the offset inside
\* [-|limit|, |limit|] leaves it inside [-|limit|, |limit|].
OffsetInside(c) ==
    /\ -Abs(limit) <= get_stepgen_offset(c)
    /\ get_stepgen_offset(c) <= Abs(limit)

C6_OffsetStaysWithinLimit ==
    (call.op = "vary_stepgen_offset" /\ OffsetInside(before)) => OffsetInside(ct)

\* C8: decrease_horizontal_range / decrease_vertical_range never leave the
\* range larger than before the call, increase_horizontal_range /
\* increase_vertical_range never leave it smaller, from every entry of the
\* (ascending) valid table.
C8_RangeMonotonic ==
    /\ (call.op = "decrease_horizontal_range" /\ HorizontalValid(before))
       => get_horizontal_range(ct) <= get_horizontal_range(before)
    /\ (call.op = "increase_horizontal_range" /\ HorizontalValid(before))
       => get_horizontal_range(ct) >= get_horizontal_range(before)
    /\ (call.op = "decrease_vertical_range" /\ VerticalValid(before))
       => get_vertical_range(ct) <= get_vertical_range(before)
    /\ (call.op = "increase_vertical_range" /\ VerticalValid(before))
       => get_vertical_range(ct) >= get_vertical_range(before)

\* C9 as stated: with the offset strictly inside (-|limit|, |limit|) and a
\* positive step size, vary_stepgen_offset(delta) sets the offset to
\* offset + delta when delta > 0 and to offset - |delta| when delta <= 0.
VariedBy(delta) == IF delta > 0 THEN delta ELSE -Abs(delta)

C9_AsStated ==
    (/\ call.op = "vary_stepgen_offset"
     /\ -Abs(limit) < get_stepgen_offset(before)
     /\ get_stepgen_offset(before) < Abs(limit)
     /\ get_stepgen_step_size(before) > 0)
    => ct = set_stepgen_offset(before, get_stepgen_offset(before) + VariedBy(call.arg))

\* C9 as amended: the same, when the offset rounded to two decimals is
\* strictly inside (-|limit|, |limit|); the step-size-derived minimum never
\* alters the amount.
RoundedStrictlyInside(c) ==
    /\ -Abs(limit) < Round2(get_stepgen_offset(c))
    /\ Round2(get_stepgen_offset(c)) < Abs(limit)

C9_OffsetFollowsDelta ==
    (/\ call.op = "vary_stepgen_offset"
     /\ RoundedStrictlyInside(before)
     /\ get_stepgen_step_size(before) > 0)
    => ct = set_stepgen_offset(before, get_stepgen_offset(before) + VariedBy(call.arg))

C9_Witness ==
    /\ call.op = "vary_stepgen_offset"
    /\ RoundedStrictlyInside(before)
    /\ get_stepgen_step_size(before) > 0
    /\ call.arg < 0
    /\ Abs(call.arg) < -RoundedMinDelta(get_stepgen_step_size(before))
    /\ get_stepgen_offset(ct) = get_stepgen_offset(before) + call.arg

\* C10: set_peak_power(pp) with pp outside VALID_PEAK_POWER raises and leaves
\* the instrument unchanged; the peak power is always 300 or 3000.
C10_PeakPowerValid ==
    /\ (call.op = "set_peak_power" /\ call.arg \notin {300, 3000})
       => (call.raised /\ ct = before)
    /\ get_peak_power(ct) \in {300, 3000}

C10_Witness ==
    /\ call.op = "set_peak_power"
    /\ call.arg \notin {300, 3000}
    /\ call.raised
    /\ get_peak_power(ct) = get_peak_power(before)

\* C7: every repetition of a measure procedure performs, in this order:
\* initialize for the measurement, enable SRQ, ramp, start_sweep, wait_for_srq,
\* get_curve, write the file, discard and disable all events; the curve is
\* never read before the sweep was started and the SRQ wait returned, the file
\* never written before the curve was read.
StepRank(step) ==
    CASE step = InitializeName -> 1
      [] step = "activate_srq" -> 2
      [] step = RampName -> 3
      [] step = "start_sweep" -> 4
      [] step = "wait_for_srq" -> 5
      [] step = "get_curve" -> 6
      [] step = "write_file" -> 7
      [] step = "discard_and_disable_all_events" -> 8

\* what may directly follow a step of rank r: the next rank; for the ramp also
\* another ramp iteration; and after the last step a new repetition
MayFollow(r, q) ==
    \/ q = r + 1
    \/ r = 3 /\ q = 3
    \/ r = 2 /\ q = 4
    \/ r = 8 /\ q = 1

Count(l, step) == Cardinality({k \in 1..Len(l) : l[k] = step})

C7_StepsInOrder ==
    /\ log # <<>> => StepRank(log[1]) = 1
    /\ \A k \in 1..(Len(log) - 1) : MayFollow(StepRank(log[k]), StepRank(log[k + 1]))
    /\ \A k \in 1..Len(log) :
          /\ log[k] = "get_curve" =>
                /\ k > 2
                /\ log[k - 1] = "wait_for_srq"
                /\ log[k - 2] = "start_sweep"
          /\ log[k] = "write_file" => (k > 1 /\ log[k - 1] = "get_curve")
    /\ pc \in {"while", "done"} =>
          \A step \in {InitializeName, "activate_srq", "start_sweep", "wait_for_srq",
                       "get_curve", "write_file", "discard_and_disable_all_events"} :
              Count(log, step) = n_measures

C7_Witness ==
    /\ pc = "done"
    /\ n_measures = 2
    /\ Count(log, RampName) > 2
    /\ Count(log, "get_curve") = 2
    /\ Len(files) = 2

----------------------------------------------------------------------------
\* C11: start_sweep is called only when the cursor values last read have reached
\* a limit (i_cursor <= min_i or v_cursor <= min_v in measure_3Q, i_cursor >=
\* max_i or v_cursor >= max_v in the other two); while neither has, the
\* procedure's next step is another iteration of the polling loop, also when the
\* step generator offset of measure_IdVgs has reached limit_stegen_offset.
LimitReached ==
    IF proc = "measure_3Q"
    THEN i_cursor <= args.lim_i \/ v_cursor <= args.lim_v
    ELSE i_cursor >= args.lim_i \/ v_cursor >= args.lim_v

\* the limits lie on the side of 0 the procedure ramps towards, so that the
\* initial i_cursor = 0, v_cursor = 0 have not reached them
LimitsAhead ==
    IF proc = "measure_3Q"
    THEN args.lim_i < 0 /\ args.lim_v < 0
    ELSE args.lim_i > 0 /\ args.lim_v > 0

Logged(step) == log' = Append(log, step)

C11_SweepOnlyAtLimit ==
    [][/\ Logged("start_sweep") =>
            /\ LimitReached
            /\ LimitsAhead => RampsAtEnd(log) >= 1
       /\ (pc = "ramp" /\ ~LimitReached) =>
            /\ Logged(RampName)
            /\ pc' = "ramp"]_vars

C11_Witness ==
    /\ proc = "measure_IdVgs"
    /\ pc = "wait_for_srq"
    /\ Round2(get_stepgen_offset(ct)) >= Abs(limit)
    /\ RampsAtEnd(SubSeq(log, 1, Len(log) - 1)) = 3
    /\ i_cursor >= args.lim_i

----------------------------------------------------------------------------
\* C12: a call with repeat = n that returns has performed exactly n sweeps and
\* written exactly n files, the k-th written being results_file_name + '_' + k
\* for k = 1..n, one per sweep and no name twice; with n <= 0 it has performed
\* no instrument operation and written no file.
Repetitions == IF args.repeat > 0 THEN args.repeat ELSE 0

NameOfFile(k) == <<"results_file_name", "_", ToString(k)>>

\* the positions in the log of the sweeps and of the file writes
Positions(step) == {k \in 1..Len(log) : log[k] = step}

C12_OneFilePerSweep ==
    pc = "done" =>
        /\ Count(log, "start_sweep") = Repetitions
        /\ Count(log, "write_file") = Repetitions
        /\ Len(files) = Repetitions
        /\ \A k \in 1..Len(files) : files[k].name = NameOfFile(k)
        /\ \A j, k \in 1..Len(files) : files[j].name = files[k].name => j = k
        \* between two sweeps a file is written, and between two writes a sweep made
        /\ \A j, k \in Positions("start_sweep") :
              j < k => \E w \in Positions("write_file") : j < w /\ w < k
        /\ \A j, k \in Positions("write_file") :
              j < k => \E w \in Positions("start_sweep") : j < w /\ w < k
        /\ args.repeat <= 0 => (log = <<>> /\ files = <<>> /\ ct = initialize)

C12_Witness ==
    /\ pc = "done"
    /\ args.repeat = 2
    /\ Len(files) = 2
    /\ files[2].name = NameOfFile(2)
    /\ Count(log, "start_sweep") = 2

----------------------------------------------------------------------------
\* C13: the file a repetition writes holds exactly one line per point of the
\* curve get_curve returned, in the reverse of the order returned, each line
\* being the point's first coordinate, a tab, its second coordinate and a
\* newline; no point is dropped or duplicated.
LineOf(point) == <<ToString(point[1]), "\t", ToString(point[2]), "\n">>

\* the file of the repetition in progress is written
FileWritten == pc = "discard"

C13_FileHoldsCurveReversed ==
    FileWritten =>
        LET rows == files[Len(files)].rows
            n == Len(curve)
        IN  /\ Len(files) = n_measures + 1
            /\ Len(rows) = n
            /\ \A k \in 1..n : rows[k] = LineOf(curve[n + 1 - k])

C13_Witness ==
    /\ FileWritten
    /\ Len(curve) = 3
    /\ files[Len(files)].rows[1] = LineOf(curve[3])
    /\ files[Len(files)].rows[3] = LineOf(curve[1])
    /\ curve[1] # curve[3]

----------------------------------------------------------------------------
\* C14: in one iteration of the ramp loop of main() the vertical range is
\* enlarged, by at most one table step, exactly when get_vertical_range() <
\* i_cursor < i_max, and the horizontal range exactly when
\* get_horizontal_range() < v_cursor < v_max; no iteration reduces either range;
\* start_sweep is called only after i_cursor >= i_max or v_cursor >= v_max.
TableSteps(list, from, to) == PositionOf(list, to) - PositionOf(list, from)

C14_RangesOnlyGrowOnOverflow ==
    /\ call.op = "main_iteration" =>
          /\ ~call.raised
          /\ get_vertical_range(ct) > get_vertical_range(before)
                <=> (get_vertical_range(before) < i_cursor /\ i_cursor < i_max)
          /\ get_horizontal_range(ct) > get_horizontal_range(before)
                <=> (get_horizontal_range(before) < v_cursor /\ v_cursor < v_max)
          /\ get_vertical_range(ct) >= get_vertical_range(before)
          /\ get_horizontal_range(ct) >= get_horizontal_range(before)
          /\ VerticalValid(ct) /\ HorizontalValid(ct)
          /\ TableSteps(get_valid_vertical_sensitivities(before),
                        get_vertical_sensitivity(before),
                        get_vertical_sensitivity(ct)) \in {0, 1}
          /\ TableSteps(get_valid_horizontal_sensitivities(before),
                        get_horizontal_sensitivity(before),
                        get_horizontal_sensitivity(ct)) \in {0, 1}
    /\ call.op = "start_sweep" => (i_cursor >= i_max \/ v_cursor >= v_max)

C14_Witness ==
    /\ call.op = "main_iteration"
    /\ get_horizontal_range(before) < v_cursor
    /\ v_cursor < v_max
    /\ get_horizontal_range(ct) > get_horizontal_range(before)
    /\ get_vertical_range(ct) = get_vertical_range(before)

====
